---- MODULE Spec2Model ----
(***************************************************************************)
(* Model of src/app.py, the COVID Tracker dashboard: the cached loader,    *)
(* the aggregations behind each chart, the ranking, the monthly view and   *)
(* the range query, run top to bottom on every user interaction.           *)
(*                                                                         *)
(* Representation.  A country name and a country code are naturals (names  *)
(* sort as numbers sort).  A dateRep cell of the CSV is text: a separator  *)
(* and three numeric fields.  A parsed date (datetime64) is the integer    *)
(* year*10000 + month*100 + day, which orders as dates order; a monthly    *)
(* period is year*100 + month.  The deaths column is carried in the header *)
(* only: no modelled aggregate reads its values.                           *)
(***************************************************************************)
EXTENDS Integers, Sequences, FiniteSets, TLC

VARIABLES
  file,   \* data.csv on disk
  cache,  \* what st.cache_data holds for load_data: None, or the frame
  reads,  \* how many times pd.read_csv has read and parsed data.csv
  first,  \* the frame the first successful load_data call returned
  ui,     \* widget state kept across reruns
  last    \* what the last run of the script computed and displayed

vars == <<file, cache, reads, first, ui, last>>

(***************************************************************************)
(* Bounds of the model.                                                    *)
(***************************************************************************)
MaxRows == 2
MaxReads == 3
WideCountries == 11
MaxPick == 2

(***************************************************************************)
(* Program constants.                                                      *)
(***************************************************************************)
TopN == 10

Columns ==
  {"dateRep", "countriesAndTerritories", "countryterritoryCode", "cases", "deaths"}

(***************************************************************************)
(* Input domains.                                                          *)
(***************************************************************************)
\* (name, code) pairs of the records: country 1 is reported under code 1 and,
\* inconsistently, under code 2; country 2 under code 2 only.
CountryCodes == { <<1, 1>>, <<1, 2>>, <<2, 2>> }
CaseCounts == {0, 2}
GoodDateTexts ==
  { [sep |-> "/", f |-> <<31, 12, 2020>>], [sep |-> "/", f |-> <<1, 1, 2021>>] }
BadDateText == [sep |-> "-", f |-> <<2021, 1, 1>>]
\* (start, end) pairs of the form: one day, a two-day window, a reversed window.
PickWindows == { <<20201231, 20201231>>, <<20201231, 20210101>>, <<20210101, 20201231>> }

None == [kind |-> "none"]

(***************************************************************************)
(* Sequence helpers.                                                       *)
(***************************************************************************)
RECURSIVE SumSeq(_)
SumSeq(s) == IF s = <<>> THEN 0 ELSE Head(s) + SumSeq(Tail(s))

Range(s) == { s[i] : i \in DOMAIN s }

Min2(a, b) == IF a <= b THEN a ELSE b

CasesOf(rows) == [i \in DOMAIN rows |-> rows[i].cases]

RECURSIVE SetToSortedSeq(_)
SetToSortedSeq(S) ==
  IF S = {} THEN <<>>
  ELSE LET m == CHOOSE x \in S : \A y \in S : x <= y
       IN <<m>> \o SetToSortedSeq(S \ {m})

(***************************************************************************)
(* The source file data.csv, as the operating system holds it.             *)
(***************************************************************************)
GoodRows ==
  { [dateRep |-> d, country |-> k[1], code |-> k[2], cases |-> n] :
      d \in GoodDateTexts, k \in CountryCodes, n \in CaseCounts }

BadRows == { [dateRep |-> BadDateText, country |-> 1, code |-> 1, cases |-> 2] }

RawRows == GoodRows \cup BadRows

\* Files hold at least one record.
SeqsUpTo(S, n) == UNION { [1..k -> S] : k \in 1..n }

OkFiles ==
  { [readable |-> TRUE, header |-> Columns, rows |-> r] : r \in SeqsUpTo(RawRows, MaxRows) }

\* One country per row, each with its own code, on one day; countries 1 and
\* 2 report 1 case each and country i > 2 reports i - 1 cases, so that the
\* totals are in strict order above one tie in the last two places.
WideFile(n) ==
  [readable |-> TRUE, header |-> Columns,
   rows |-> [i \in 1..n |-> [dateRep |-> [sep |-> "/", f |-> <<1, 1, 2021>>],
                             country |-> i, code |-> i,
                             cases |-> IF i = 1 THEN 1 ELSE i - 1]]]

WideFiles == { WideFile(n) : n \in (TopN + 1)..WideCountries }

UnreadableFile == [readable |-> FALSE, header |-> Columns, rows |-> <<>>]

MissingColumnFiles ==
  { [readable |-> TRUE, header |-> Columns \ {c}, rows |-> r] :
      c \in Columns,
      r \in SeqsUpTo({ x \in RawRows : x.country = 1 /\ x.code = 1 /\ x.cases = 2 }, 1) }

Files == OkFiles \cup WideFiles \cup MissingColumnFiles \cup {UnreadableFile}

(***************************************************************************)
(* Loader: load_data, under st.cache_data.                                 *)
(***************************************************************************)
IsLeap(y) == (y % 4 = 0 /\ y % 100 # 0) \/ y % 400 = 0

DaysIn(m, y) ==
  IF m = 2 THEN (IF IsLeap(y) THEN 29 ELSE 28)
  ELSE IF m \in {4, 6, 9, 11} THEN 30 ELSE 31

\* strptime with format "%d/%m/%Y": day, month, year separated by "/".
MatchesFormat(t) ==
  /\ t.sep = "/"
  /\ Len(t.f) = 3
  /\ t.f[3] \in 1..9999
  /\ t.f[2] \in 1..12
  /\ t.f[1] \in 1..DaysIn(t.f[2], t.f[3])

\* pd.to_datetime(text, format="%d/%m/%Y") of a matching text.
to_datetime(t) == t.f[3] * 10000 + t.f[2] * 100 + t.f[1]

ParseRow(r) ==
  [dateRep |-> to_datetime(r.dateRep), country |-> r.country,
   code |-> r.code, cases |-> r.cases]

\* The body of load_data: read_csv, then the dateRep column parsed in place.
load_data(f) ==
  IF ~f.readable THEN [ok |-> FALSE, error |-> "FileNotFoundError", frame |-> None]
  ELSE IF "dateRep" \notin f.header THEN [ok |-> FALSE, error |-> "KeyError", frame |-> None]
  ELSE IF \E i \in DOMAIN f.rows : ~MatchesFormat(f.rows[i].dateRep)
       THEN [ok |-> FALSE, error |-> "ValueError", frame |-> None]
  ELSE [ok |-> TRUE, error |-> "none",
        frame |-> [kind |-> "frame", header |-> f.header,
                   index |-> [i \in DOMAIN f.rows |-> i - 1],
                   rows |-> [i \in DOMAIN f.rows |-> ParseRow(f.rows[i])]]]

(***************************************************************************)
(* Frame objects.  The script holds DataFrame objects by reference: `heap` *)
(* is the sequence of the objects a run has created so far, a reference is *)
(* a position in it, and position 1 is the object bound to `data`.         *)
(***************************************************************************)
alloc(heap, frame) == [heap |-> Append(heap, frame), ref |-> Len(heap) + 1]

\* frame[frame["countriesAndTerritories"] == c]: boolean indexing builds a
\* new object with the selected rows under their index labels.
getitem(heap, ref, c) ==
  LET f == heap[ref]
      pos == SetToSortedSeq({ i \in DOMAIN f.rows : f.rows[i].country = c })
  IN alloc(heap, [f EXCEPT !.rows = [k \in DOMAIN pos |-> f.rows[pos[k]]],
                           !.index = [k \in DOMAIN pos |-> f.index[pos[k]]]])

\* frame.copy(): a new object with the same columns, labels and rows.
copy(heap, ref) == alloc(heap, heap[ref])

\* The value a row gets for a label the assigned Series does not have.
NaN == [kind |-> "nan"]

\* frame[col]: the column as a Series (index labels and values).
Series(frame, col) ==
  [index |-> frame.index, values |-> [i \in DOMAIN frame.rows |-> frame.rows[i][col]]]

SetField(r, col, v) == [c \in DOMAIN r \cup {col} |-> IF c = col THEN v ELSE r[c]]

\* frame[col] = series, in place on the object at `ref`: the column is added
\* or replaced, the values aligned on the index labels.
setitem(heap, ref, col, series) ==
  LET f == heap[ref]
      val(l) == IF \E k \in DOMAIN series.index : series.index[k] = l
                THEN series.values[CHOOSE k \in DOMAIN series.index : series.index[k] = l]
                ELSE NaN
  IN [heap EXCEPT ![ref] =
        [f EXCEPT !.header = @ \cup {col},
                  !.rows = [i \in DOMAIN f.rows |-> SetField(f.rows[i], col, val(f.index[i]))]]]

(***************************************************************************)
(* Country Aggregator, Time Aggregator and Ranker.                         *)
(***************************************************************************)
CountryRows(rows, c) == SelectSeq(rows, LAMBDA r : r.country = c)

\* data.groupby("countriesAndTerritories", as_index=False)["cases"].sum():
\* one row per country name, in ascending order of the name.
GroupByCountry(rows) ==
  LET keys == SetToSortedSeq({ rows[i].country : i \in DOMAIN rows })
  IN [k \in DOMAIN keys |->
        [country |-> keys[k], cases |-> SumSeq(CasesOf(CountryRows(rows, keys[k])))]]

\* data[["countriesAndTerritories", "countryterritoryCode"]].drop_duplicates():
\* the first occurrence of every (name, code) pair, in row order.
RECURSIVE DropDuplicates(_, _)
DropDuplicates(pairs, seen) ==
  IF pairs = <<>> THEN <<>>
  ELSE IF Head(pairs) \in seen THEN DropDuplicates(Tail(pairs), seen)
  ELSE <<Head(pairs)>> \o DropDuplicates(Tail(pairs), seen \cup {Head(pairs)})

iso_mapping(rows) ==
  DropDuplicates([i \in DOMAIN rows |-> [country |-> rows[i].country, code |-> rows[i].code]], {})

\* left.merge(right, on="countriesAndTerritories", how="left"): every left row
\* once per matching right row (in the right table's order), in left order.
RECURSIVE MergeLeft(_, _)
MergeLeft(left, right) ==
  IF left = <<>> THEN <<>>
  ELSE LET l == Head(left)
           m == SelectSeq(right, LAMBDA r : r.country = l.country)
       IN [j \in DOMAIN m |-> [country |-> l.country, code |-> m[j].code, cases |-> l.cases]]
          \o MergeLeft(Tail(left), right)

total_cases_by_country(rows) == MergeLeft(GroupByCountry(rows), iso_mapping(rows))

\* data.groupby("dateRep")[["cases"]].sum().reset_index(): one row per date,
\* in ascending order of the date.
daily_cases(rows) ==
  LET keys == SetToSortedSeq({ rows[i].dateRep : i \in DOMAIN rows })
  IN [k \in DOMAIN keys |->
        [dateRep |-> keys[k],
         cases |-> SumSeq(CasesOf(SelectSeq(rows, LAMBDA r : r.dateRep = keys[k])))]]

\* Every arrangement of the elements of a finite set.
RECURSIVE Perms(_)
Perms(S) ==
  IF S = {} THEN { <<>> }
  ELSE UNION { { <<x>> \o p : p \in Perms(S \ {x}) } : x \in S }

\* DataFrame.sort_values with the default kind="quicksort", which is not
\* stable: the rows s[i], i in I, in ascending order of key[i], rows of equal
\* key in any order.  The result is the set of the orders the sort can give.
RECURSIVE SortOrders(_, _, _)
SortOrders(s, key, I) ==
  IF I = {} THEN { <<>> }
  ELSE LET m == CHOOSE x \in { key[i] : i \in I } : \A i \in I : x <= key[i]
           G == { i \in I : key[i] = m }
       IN { [j \in DOMAIN p |-> s[p[j]]] \o rest :
              p \in Perms(G), rest \in SortOrders(s, key, I \ G) }

\* sort_values(by="cases", ascending=False)
SortDescByCases(s) == SortOrders(s, [i \in DOMAIN s |-> 0 - s[i].cases], DOMAIN s)

head(s, n) == SubSeq(s, 1, Min2(n, Len(s)))

\* total_cases_by_country.sort_values(by="cases", ascending=False).head(10)
top_countries(totals) == { head(o, TopN) : o \in SortDescByCases(totals) }

(***************************************************************************)
(* Monthly cases of one country (the histogram of the first column).       *)
(***************************************************************************)
\* dateRep.dt.to_period("M"): the calendar month of a date.
to_period_M(d) == d \div 100

\* series.dt.to_period("M"): a new Series under the same labels.
dt_to_period_M(series) ==
  [series EXCEPT !.values = [i \in DOMAIN series.values |-> to_period_M(series.values[i])]]

SortByDateSkipped(s) == { s }

\* sort_values(by="dateRep")
SortByDate(s) == SortOrders(s, [i \in DOMAIN s |-> s[i].dateRep], DOMAIN s)

\* The same two statements in the other order: the column is written on the
\* object it is computed from, and the selection is taken afterwards.
country_cases_column_first(heap, ref, country) ==
  LET h == setitem(heap, ref, "year_month", dt_to_period_M(Series(heap[ref], "dateRep")))
  IN copy(getitem(h, ref, country).heap, Len(h) + 1)

\* Lines 128-129: the selected country's rows of the frame at `ref`, copied,
\* and the year_month column written on the copy.
country_cases_copy(heap, ref, country) ==
  LET sel == getitem(heap, ref, country)
      cp  == copy(sel.heap, sel.ref)
  IN [heap |-> setitem(cp.heap, cp.ref, "year_month",
                       dt_to_period_M(Series(cp.heap[cp.ref], "dateRep"))),
      ref |-> cp.ref]

\* Line 130: country_cases rebound to the frame sorted by dateRep (every
\* order the sort can give).
country_cases(frame) == SortByDate(frame.rows)

RECURSIVE FirstSeen(_, _)
FirstSeen(labels, seen) ==
  IF labels = <<>> THEN <<>>
  ELSE IF Head(labels) \in seen THEN FirstSeen(Tail(labels), seen)
  ELSE <<Head(labels)>> \o FirstSeen(Tail(labels), seen \cup {Head(labels)})

\* px.histogram(country_cases, x="year_month", y="cases") on a category axis:
\* one bar per label, in the order the labels first appear, each bar the sum
\* of cases of the rows carrying its label.
histogram(cc) ==
  LET labels == FirstSeen([i \in DOMAIN cc |-> cc[i].year_month], {})
  IN [k \in DOMAIN labels |->
        [year_month |-> labels[k],
         cases |-> SumSeq(CasesOf(SelectSeq(cc, LAMBDA r : r.year_month = labels[k])))]]

(***************************************************************************)
(* Range query (the form of the second column).                            *)
(***************************************************************************)
\* st.date_input returns a datetime.date.
date_input(v) == [type |-> "date", value |-> v]

\* The scalars a datetime64 column accepts in an ordering comparison; any
\* other operand makes pandas raise TypeError ("Invalid comparison between
\* dtype=datetime64[ns] and date").
ComparableWithDatetime64(x) == x.type \in {"datetime", "datetime64", "Timestamp"}

\* Line 160: the rows with start_period <= dateRep <= end_period.
mask(rows, start_period, end_period) ==
  SelectSeq(rows, LAMBDA r : r.dateRep >= start_period.value /\ r.dateRep <= end_period.value)

RECURSIVE Pow2(_)
Pow2(n) == IF n = 0 THEN 1 ELSE 2 * Pow2(n - 1)

\* The binary exponent of num/den > 0: the e with 2^e <= num/den < 2^(e+1).
RECURSIVE FloorLog2From(_, _, _)
FloorLog2From(num, den, e) ==
  IF num >= den
  THEN (IF num >= 2 * den * Pow2(e) THEN FloorLog2From(num, den, e + 1) ELSE e)
  ELSE (IF num * Pow2(0 - e) < den THEN FloorLog2From(num, den, e - 1) ELSE e)

FloorLog2(num, den) == FloorLog2From(num, den, 0)

RECURSIVE Pow2Mod(_, _)
Pow2Mod(n, m) == IF n = 0 THEN 1 % m ELSE (2 * Pow2Mod(n - 1, m)) % m

\* np.round(avg_cases, 2), in hundredths, of avg_cases = the float64 quotient
\* num/den: rint(fl(fl(num/den) * 100)), rint rounding a half to even.
\* Off a decimal half the float errors cannot change the nearest hundredth.
\* On a decimal half q + 1/2 the double x = fl(num/den) has the 53-bit
\* significand nearest to num/den * 2^(52-e1); rho/den is the fraction cut
\* off, so x is below num/den by rho/den units when 2*rho < den and above it
\* by (den-rho)/den units otherwise.  x*100 then misses q + 1/2 by
\* 100*a/den / 2^(e2-e1) units of the doubles around q + 1/2: more than half
\* a unit and the product rounds to the neighbouring double on that side,
\* otherwise to q + 1/2 itself, which rint takes to the even neighbour.
Round2(num, den) ==
  LET q == (100 * num) \div den
      r == (100 * num) % den
  IN IF 2 * r # den THEN (IF 2 * r > den THEN q + 1 ELSE q)
     ELSE LET e1  == FloorLog2(num, den)
              e2  == FloorLog2(2 * q + 1, 2)
              rho == (num * Pow2Mod(52 - e1, den)) % den
              a   == IF 2 * rho < den THEN rho ELSE den - rho
          IN IF rho # 0 /\ 200 * a > Pow2(e2 - e1) * den
             THEN (IF 2 * rho < den THEN q ELSE q + 1)
             ELSE (IF q % 2 = 1 THEN q + 1 ELSE q)

NoOutcome == [kind |-> "none", value |-> 0]

\* pd.to_datetime of a Series that is already datetime64: the same values
\* under the same labels.
to_datetime64(series) == series

\* Lines 158-166, run when the form is submitted, on the frame at `ref`: the
\* heap as the statements leave it and what the form shows.
RangeQuery(heap, ref, q) ==
  LET sel == getitem(heap, ref, q.country)
      cp  == copy(sel.heap, sel.ref)
      h   == setitem(cp.heap, cp.ref, "dateRep",
                     to_datetime64(Series(cp.heap[cp.ref], "dateRep")))
      avg_period_country_cases == h[cp.ref].rows
  IN IF ~ComparableWithDatetime64(q.start) \/ ~ComparableWithDatetime64(q.end)
     THEN [heap |-> h, kind |-> "TypeError", value |-> 0]
     ELSE LET m == mask(avg_period_country_cases, q.start, q.end)
          IN IF m = <<>>
             THEN [heap |-> h, kind |-> "warning", value |-> 0]
             ELSE [heap |-> h, kind |-> "metric",
                   value |-> Round2(SumSeq(CasesOf(m)), Len(m))]

(***************************************************************************)
(* One run of the script, top to bottom, on the frame load_data returned.  *)
(***************************************************************************)
NoQuery == [submit |-> FALSE, country |-> 0, start |-> date_input(0), end |-> date_input(0)]

\* data["countriesAndTerritories"].sort_values().unique()
options(rows) == SetToSortedSeq({ rows[i].country : i \in DOMAIN rows })

ElementsIntro(u) ==
  <<"title", "markdown_welcome", "markdown_source", "checkbox_raw">>
  \o (IF u.show_raw THEN <<"subheader_raw", "table_raw">> ELSE <<>>)
  \o <<"header_europe">>

ElementsMap == <<"choropleth", "subheader_daily">>

ElementsDaily == <<"line_chart", "subheader_scatter">>

ElementsRest ==
  <<"scatter", "subheader_top", "bar_chart", "header_country", "subheader_monthly",
    "selectbox_country", "histogram", "subheader_average",
    "form_selectbox", "form_start", "form_end", "form_submit">>

Blank ==
  [status |-> "not_run", error |-> "none", line |-> 0, rendered |-> <<>>,
   loaded |-> None, data |-> None, objects |-> 0, totals |-> <<>>, daily |-> <<>>, top |-> {},
   country |-> 0, monthly |-> {}, query |-> NoQuery, outcome |-> NoOutcome]

\* What a run shows when load_data raises at line 20.
RenderedOnLoadFailure == <<>>

\* One run of the script.  Where sort_values leaves the order of equal keys
\* open (lines 104 and 130), the run's record holds every table the line can
\* yield: `top` is the set of rankings, `monthly` the set of histograms.
Script(data, u, q) ==
  LET rows == data.rows
      heap == << data >>
      base == [Blank EXCEPT !.loaded = data, !.data = heap[1], !.objects = Len(heap),
                            !.query = q]
      totals == total_cases_by_country(rows)
      daily == daily_cases(rows)
      country == options(rows)[u.country_idx]
  IN IF {"countriesAndTerritories", "cases", "countryterritoryCode"} \ data.header # {}
     THEN [base EXCEPT !.status = "aborted", !.error = "KeyError",
                       !.line = IF {"countriesAndTerritories", "cases"} \ data.header # {}
                                THEN 35 ELSE 36,
                       !.rendered = ElementsIntro(u)]
     ELSE IF "deaths" \notin data.header
     THEN [base EXCEPT !.status = "aborted", !.error = "KeyError", !.line = 85,
                       !.rendered = ElementsIntro(u) \o ElementsMap \o ElementsDaily,
                       !.totals = totals, !.daily = daily]
     ELSE LET cc  == country_cases_copy(heap, 1, country)
              rq  == IF q.submit THEN RangeQuery(cc.heap, 1, q)
                     ELSE [heap |-> cc.heap, kind |-> "none", value |-> 0]
              out == [kind |-> rq.kind, value |-> rq.value]
              full == [base EXCEPT !.totals = totals, !.daily = daily,
                                   !.top = top_countries(totals),
                                   !.country = country,
                                   !.monthly = { histogram(t) :
                                                   t \in country_cases(cc.heap[cc.ref]) },
                                   !.outcome = out,
                                   !.data = rq.heap[1],
                                   !.objects = Len(rq.heap),
                                   !.rendered = ElementsIntro(u) \o ElementsMap
                                                \o ElementsDaily \o ElementsRest]
          IN CASE out.kind = "TypeError" ->
                    [full EXCEPT !.status = "aborted", !.error = "TypeError", !.line = 160]
               [] out.kind = "warning" ->
                    [full EXCEPT !.status = "complete", !.rendered = @ \o <<"warning">>]
               [] out.kind = "metric" ->
                    [full EXCEPT !.status = "complete", !.rendered = @ \o <<"metric">>]
               [] OTHER -> [full EXCEPT !.status = "complete"]

(***************************************************************************)
(* The session: every interaction reruns the whole script.                 *)
(***************************************************************************)
\* st.cache_data around load_data: what the cache holds after a call, given
\* what it held and what load_data returned on a miss.  A raised exception
\* stores nothing.
cache_dataNever(cached, res) == None

cache_data(cached, res) ==
  IF cached # None THEN cached
  ELSE IF res.ok THEN res.frame ELSE None

Init ==
  /\ file \in Files
  /\ cache = None
  /\ reads = 0
  /\ first = None
  /\ ui = [show_raw |-> FALSE, country_idx |-> 1]
  /\ last = Blank

\* One run of app.py with widget state u and form submission q.
Run(u, q) ==
  LET hit == cache # None
      res == IF hit THEN [ok |-> TRUE, error |-> "none", frame |-> cache]
             ELSE load_data(file)
  IN /\ hit \/ ~file.readable \/ reads < MaxReads
     /\ reads' = IF hit \/ ~file.readable THEN reads ELSE reads + 1
     /\ cache' = cache_data(cache, res)
     /\ first' = IF first = None /\ res.ok THEN res.frame ELSE first
     /\ ui' = u
     /\ last' = IF res.ok THEN Script(res.frame, u, q)
                ELSE [Blank EXCEPT !.status = "load_failed", !.error = res.error,
                                   !.line = 20, !.rendered = RenderedOnLoadFailure]
     /\ UNCHANGED file

Shown(e) == \E i \in DOMAIN last.rendered : last.rendered[i] = e

\* The browser opens the app, or the user asks for a rerun.
Rerun == Run(ui, NoQuery)

\* The "Show raw data" checkbox is toggled.
ToggleRaw ==
  /\ Shown("checkbox_raw")
  /\ Run([ui EXCEPT !.show_raw = ~@], NoQuery)

\* The positions of a selectbox the user picks: its first MaxPick options.
Picks(opts) == 1..Min2(MaxPick, Len(opts))

\* Another country is picked in the first column's selectbox.
SelectCountry ==
  /\ Shown("selectbox_country")
  /\ \E i \in Picks(options(last.loaded.rows)) :
        /\ i # ui.country_idx
        /\ Run([ui EXCEPT !.country_idx = i], NoQuery)

\* The form is filled in and submitted.
SubmitForm ==
  /\ Shown("form_submit")
  /\ \E i \in Picks(options(last.loaded.rows)), w \in PickWindows :
        Run(ui, [submit |-> TRUE, country |-> options(last.loaded.rows)[i],
                 start |-> date_input(w[1]), end |-> date_input(w[2])])

\* data.csv is removed while the app is running.
RemoveFile ==
  /\ file.readable
  /\ file' = UnreadableFile
  /\ UNCHANGED <<cache, reads, first, ui, last>>

Next == Rerun \/ ToggleRaw \/ SelectCountry \/ SubmitForm \/ RemoveFile

Spec == Init /\ [][Next]_vars

(***************************************************************************)
(* Vocabulary of the properties.                                           *)
(***************************************************************************)
Ran == last.status \in {"complete", "aborted"}

\* The run got past lines 35-37 and 68 (the two aggregations were computed).
Aggregated == Ran /\ last.line \notin {35, 36}

\* The run got past line 104 (the ranking was computed and the columns drawn).
Ranked == Ran /\ last.line \notin {35, 36, 85}

Submitted == Ranked /\ last.query.submit

DistinctCountries == { last.loaded.rows[i].country : i \in DOMAIN last.loaded.rows }

\* The records the submitted range query is about: the selected country's,
\* dated within [start, end], both bounds included.
Matching ==
  SelectSeq(last.loaded.rows,
            LAMBDA r : /\ r.country = last.query.country
                       /\ last.query.start.value <= r.dateRep
                       /\ r.dateRep <= last.query.end.value)

\* The records of the selected country in calendar month ym.
MonthRows(ym) ==
  SelectSeq(last.loaded.rows,
            LAMBDA r : r.country = last.country /\ r.dateRep \div 100 = ym)

(***************************************************************************)
(* C1: the total of total_cases_by_country over its rows, the total of     *)
(* daily_cases over its rows and the total of cases over the raw records   *)
(* are equal.  (Stated as claimed; the merge at line 37 breaks it.)        *)
(***************************************************************************)
C1_ThreeSumsAgree ==
  Aggregated =>
    /\ SumSeq(CasesOf(last.totals)) = SumSeq(CasesOf(last.daily))
    /\ SumSeq(CasesOf(last.daily)) = SumSeq(CasesOf(last.loaded.rows))

(***************************************************************************)
(* C2: a submitted range query whose window holds no record of the chosen  *)
(* country ends in the warning, with no exception and no number.  (Stated  *)
(* as claimed; the comparison at line 160 raises.)                         *)
(***************************************************************************)
C2_EmptyWindowWarns ==
  (Submitted /\ Matching = <<>>) =>
    /\ last.outcome.kind = "warning"
    /\ last.error = "none"

(***************************************************************************)
(* C3: a submitted range query over a window holding records of the chosen *)
(* country shows the mean of cases over exactly those records, the bounds  *)
(* included.  (Stated as claimed; the comparison at line 160 raises.)      *)
(***************************************************************************)
C3_MeanOverInclusiveWindow ==
  (Submitted /\ Matching # <<>>) =>
    last.outcome = [kind |-> "metric",
                    value |-> Round2(SumSeq(CasesOf(Matching)), Len(Matching))]

(***************************************************************************)
(* C4: top_countries is in non-increasing order of cases and has exactly   *)
(* min(10, number of distinct country names) rows.  (Stated as claimed;    *)
(* the rows duplicated by the merge at line 37 break the length.)          *)
(***************************************************************************)
C4_TopTenSortedAndSized ==
  Ranked =>
    /\ last.top # {}
    /\ \A top \in last.top :
         /\ \A i \in 1..(Len(top) - 1) : top[i].cases >= top[i + 1].cases
         /\ Len(top) = Min2(TopN, Cardinality(DistinctCountries))

(***************************************************************************)
(* C5: total_cases_by_country has exactly one row per distinct country     *)
(* name, also when a country's records carry several codes.  (Stated as    *)
(* claimed; the merge at line 37 emits one row per (name, code) pair.)     *)
(***************************************************************************)
C5_OneRowPerCountry ==
  Aggregated =>
    /\ Len(last.totals) = Cardinality(DistinctCountries)
    /\ \A c \in DistinctCountries :
         Cardinality({ i \in DOMAIN last.totals : last.totals[i].country = c }) = 1

(***************************************************************************)
(* C6, as claimed: the CSV is read at most once in a session and every     *)
(* load_data call returns the frame of the first.  (A raised load is not   *)
(* cached: the next run reads again.)                                      *)
(***************************************************************************)
C6_ReadAtMostOnce ==
  /\ reads <= 1
  /\ (first # None /\ Ran) => last.loaded = first

(***************************************************************************)
(* C6, amended: once load_data has succeeded, no later step reads the CSV  *)
(* again and every later run is handed the frame of that first success.    *)
(***************************************************************************)
C6_NoReadAfterSuccess ==
  [][first # None => (reads' = reads /\ last'.loaded = first)]_vars

C6_Witness ==
  /\ first # None
  /\ reads = 1
  /\ ui.show_raw
  /\ ~file.readable
  /\ last.status = "complete"
  /\ last.loaded = first

(***************************************************************************)
(* C7: when ingestion fails (unreadable file, a required column missing,   *)
(* a dateRep not matching day/month/year) the run displays no element.     *)
(* (Stated as claimed; only dateRep is looked up inside load_data, so a    *)
(* file without another required column is loaded and the run stops at     *)
(* line 35, 36 or 85 with the elements above it displayed.)                *)
(***************************************************************************)
IngestionFailed ==
  \/ last.status = "load_failed"
  \/ (Ran /\ Columns \ last.loaded.header # {})

C7_NoPartialDashboard == IngestionFailed => last.rendered = <<>>

(***************************************************************************)
(* C8: after load_data has produced the frame, no run and no interaction   *)
(* changes it: the cache holds, and the object bound to `data` is at the   *)
(* end of every run, the frame first loaded (same columns, same labels,    *)
(* same rows).                                                             *)
(***************************************************************************)
C8_BaseFrameUnchanged ==
  first # None => (cache = first /\ last.data = first)

\* A run with the raw table shown, the second country selected and the form
\* submitted: lines 128-129 and 158-159 have made their selections and
\* copies (four objects beside `data`) and written year_month and dateRep.
C8_Witness ==
  /\ first # None
  /\ ui.show_raw
  /\ ui.country_idx = 2
  /\ last.query.submit
  /\ last.objects = 5
  /\ \E m \in last.monthly : Len(m) >= 1
  /\ last.data = first
  /\ cache = first

(***************************************************************************)
(* C9: the monthly view of the selected country has one bar per calendar   *)
(* month in which that country has records, the bars in chronological      *)
(* order, each bar the sum of cases of that country's records of that      *)
(* month.                                                                  *)
(***************************************************************************)
C9_MonthlyChronological ==
  Ranked =>
    /\ last.country = options(last.loaded.rows)[ui.country_idx]
    /\ last.monthly # {}
    /\ \A monthly \in last.monthly :
         /\ \A i \in DOMAIN monthly : \A j \in DOMAIN monthly :
              i < j => monthly[i].year_month < monthly[j].year_month
         /\ { monthly[i].year_month : i \in DOMAIN monthly }
              = { r.dateRep \div 100 :
                    r \in { x \in Range(last.loaded.rows) : x.country = last.country } }
         /\ \A i \in DOMAIN monthly :
              monthly[i].cases = SumSeq(CasesOf(MonthRows(monthly[i].year_month)))

\* The selected country's records are in the file later month first, and
\* another country's record could not be there (two rows): two bars.
C9_Witness ==
  /\ Ranked
  /\ Len(last.loaded.rows) = 2
  /\ last.loaded.rows[1].country = last.country
  /\ last.loaded.rows[2].country = last.country
  /\ last.loaded.rows[1].dateRep > last.loaded.rows[2].dateRep
  /\ \E monthly \in last.monthly : Len(monthly) = 2 /\ monthly[2].cases = 2

(***************************************************************************)
(* C10: on every submission exactly one of warning and metric is shown;    *)
(* the warning only for an empty window, a metric whenever the window      *)
(* holds a record (also when all its cases are 0).  (Stated as claimed;    *)
(* the comparison at line 160 raises and neither is shown.)                *)
(***************************************************************************)
C10_WarningOnlyWhenEmpty ==
  Submitted =>
    /\ last.outcome.kind = "warning" => Matching = <<>>
    /\ Matching # <<>> => last.outcome.kind = "metric"
    /\ Shown("warning") # Shown("metric")

====
